---- MODULE Spec2Model ----
(***************************************************************************)
(* Client-storage services of the admin front end: CookieService and      *)
(* SessionStorageService (app/services/cookie.service.ts) and             *)
(* LocalStorageService.  Text is modelled as a sequence of lexemes: single *)
(* characters, and whole words (directive names, JSON literals) that no    *)
(* operation looks inside.  Percent-encoding, JSON text and the cookie     *)
(* syntax are computed lexeme by lexeme as the code and the platform do.   *)
(***************************************************************************)
EXTENDS Integers, Sequences, FiniteSets, TLC

(***************************************************************************)
(* Characters                                                             *)
(***************************************************************************)
Digits == <<"0", "1", "2", "3", "4", "5", "6", "7", "8", "9">>

DigitSet == {Digits[i] : i \in 1..10}

LowerLetters ==
    {"a", "b", "c", "d", "e", "f", "g", "h", "i", "j", "k", "l", "m",
     "n", "o", "p", "q", "r", "s", "t", "u", "v", "w", "x", "y", "z"}

UpperLetters ==
    {"A", "B", "C", "D", "E", "F", "G", "H", "I", "J", "K", "L", "M",
     "N", "O", "P", "Q", "R", "S", "T", "U", "V", "W", "X", "Y", "Z"}

\* Words: runs of letters and underscores that stay whole.
LowerWords ==
    <<"expires", "path", "domain", "secure", "samesite", "httponly",
      "strict", "lax", "none">>
UpperWords ==
    <<"Expires", "Path", "Domain", "Secure", "SameSite", "HttpOnly",
      "Strict", "Lax", "None">>
Words ==
    {LowerWords[i] : i \in 1..Len(LowerWords)}
        \cup {UpperWords[i] : i \in 1..Len(UpperWords)}
        \cup {"true", "false", "null", "undefined", "__proto__", "app", "ex", "org",
              "Bearer", "token"}

\* Characters encodeURIComponent leaves alone.
Unreserved ==
    LowerLetters \cup UpperLetters \cup DigitSet \cup Words
        \cup {"-", "_", ".", "!", "~", "*", "'", "(", ")"}

\* The percent code of every other character of the model's alphabet.
PctCode ==
    (" " :> <<"2", "0">>) @@ ("\"" :> <<"2", "2">>) @@ ("%" :> <<"2", "5">>)
        @@ ("," :> <<"2", "C">>) @@ ("/" :> <<"2", "F">>)
        @@ (":" :> <<"3", "A">>) @@ (";" :> <<"3", "B">>)
        @@ ("=" :> <<"3", "D">>) @@ ("@" :> <<"4", "0">>)
        @@ ("[" :> <<"5", "B">>)
        @@ ("\\" :> <<"5", "C">>) @@ ("]" :> <<"5", "D">>)
        @@ ("{" :> <<"7", "B">>) @@ ("}" :> <<"7", "D">>)

HexDigits == DigitSet \cup {"A", "B", "C", "D", "E", "F", "a", "b", "c", "d", "e", "f"}

\* String.prototype.trim strips these; JSON.parse skips them between tokens.
WhiteSpace == {" ", "\t", "\n", "\r"}

(***************************************************************************)
(* Text helpers                                                           *)
(***************************************************************************)
RECURSIVE Concat(_)
\* The texts of a sequence of texts, joined.
Concat(parts) ==
    IF parts = <<>> THEN <<>> ELSE Head(parts) \o Concat(Tail(parts))

RECURSIVE IndexOf(_, _, _)
\* String.prototype.indexOf(c, from) for one character; 0 when absent.
IndexOf(s, c, from) ==
    IF from > Len(s) THEN 0
    ELSE IF s[from] = c THEN from
    ELSE IndexOf(s, c, from + 1)

RECURSIVE Split(_, _)
\* String.prototype.split(c): the pieces between the occurrences of c.
Split(s, c) ==
    LET i == IndexOf(s, c, 1)
    IN  IF i = 0 THEN <<s>>
        ELSE <<SubSeq(s, 1, i - 1)>> \o Split(SubSeq(s, i + 1, Len(s)), c)

RECURSIVE TrimLeft(_)
TrimLeft(s) ==
    IF s # <<>> /\ Head(s) \in WhiteSpace THEN TrimLeft(Tail(s)) ELSE s

RECURSIVE TrimRight(_)
TrimRight(s) ==
    IF s # <<>> /\ s[Len(s)] \in WhiteSpace
    THEN TrimRight(SubSeq(s, 1, Len(s) - 1)) ELSE s

\* String.prototype.trim
Trim(s) == TrimRight(TrimLeft(s))

\* s.indexOf(p) === 0
StartsWith(s, p) == Len(p) <= Len(s) /\ SubSeq(s, 1, Len(p)) = p

(***************************************************************************)
(* encodeURIComponent / decodeURIComponent                                *)
(***************************************************************************)
EncodeChar(c) == IF c \in Unreserved THEN <<c>> ELSE <<"%">> \o PctCode[c]

\* encodeURIComponent(s)
EncodeURIComponent(s) == Concat([i \in 1..Len(s) |-> EncodeChar(s[i])])

\* The character a percent code stands for: a character of the alphabet, or
\* "?" for any other ASCII character.
PctChar(h) ==
    IF \E c \in DOMAIN PctCode : PctCode[c] = h
    THEN CHOOSE c \in DOMAIN PctCode : PctCode[c] = h
    ELSE "?"

\* High hex digits of the bytes that are ASCII on their own; a byte above
\* them starts a multi-byte sequence, which the alphabet does not hold.
AsciiHigh == {"0", "1", "2", "3", "4", "5", "6", "7"}

RECURSIVE DecodeFrom(_, _)
\* decodeURIComponent from position i: [ok, s]; ok is FALSE where the
\* platform raises URIError (a "%" not followed by two hex digits).
DecodeFrom(s, i) ==
    IF i > Len(s) THEN [ok |-> TRUE, s |-> <<>>]
    ELSE IF s[i] # "%"
    THEN LET r == DecodeFrom(s, i + 1)
         IN  [ok |-> r.ok, s |-> <<s[i]>> \o r.s]
    ELSE IF i + 2 > Len(s) \/ s[i + 1] \notin AsciiHigh \/ s[i + 2] \notin HexDigits
    THEN [ok |-> FALSE, s |-> <<>>]
    ELSE LET r == DecodeFrom(s, i + 3)
         IN  [ok |-> r.ok, s |-> <<PctChar(<<s[i + 1], s[i + 2]>>)>> \o r.s]

\* decodeURIComponent(s)
DecodeURIComponent(s) == DecodeFrom(s, 1)

(***************************************************************************)
(* JavaScript values                                                      *)
(***************************************************************************)
JStr(s) == [k |-> "string", v |-> s]
JNum(n) == [k |-> "number", v |-> n]
JBool(b) == [k |-> "boolean", v |-> b]
JNull == [k |-> "null", v |-> 0]
JUndefined == [k |-> "undefined", v |-> 0]
\* v: the elements in order
JArr(elems) == [k |-> "array", v |-> elems]
\* v: the members in insertion order, each <<key text, value>>
JObj(members) == [k |-> "object", v |-> members]
\* An object that refers to itself: JSON.stringify raises TypeError on it.
JCircular == [k |-> "circular", v |-> 0]
\* Record<string, string>: v maps key text to value text
JMap(m) == [k |-> "record", v |-> m]

(***************************************************************************)
(* JSON.stringify                                                         *)
(***************************************************************************)
RECURSIVE NatText(_)
\* The decimal digits of a natural number.
NatText(n) ==
    IF n < 10 THEN <<Digits[n + 1]>> ELSE NatText(n \div 10) \o <<Digits[(n % 10) + 1]>>

\* The JSON escape of one character of a string.
QuoteChar(c) ==
    CASE c = "\"" -> <<"\\", "\"">>
      [] c = "\\" -> <<"\\", "\\">>
      [] c = "\n" -> <<"\\", "n">>
      [] c = "\t" -> <<"\\", "t">>
      [] c = "\r" -> <<"\\", "r">>
      [] c = "\f" -> <<"\\", "f">>
      [] OTHER -> <<c>>

\* The JSON text of a string: quoted, with its characters escaped.
QuoteText(s) == <<"\"">> \o Concat([i \in 1..Len(s) |-> QuoteChar(s[i])]) \o <<"\"">>

RECURSIVE StringifyThrows(_)
\* JSON.stringify raises TypeError on a value that holds a cycle.
StringifyThrows(val) ==
    CASE val.k = "circular" -> TRUE
      [] val.k = "array" -> \E i \in 1..Len(val.v) : StringifyThrows(val.v[i])
      [] val.k = "object" -> \E i \in 1..Len(val.v) : StringifyThrows(val.v[i][2])
      [] OTHER -> FALSE

RECURSIVE JoinComma(_)
JoinComma(parts) ==
    IF parts = <<>> THEN <<>>
    ELSE IF Len(parts) = 1 THEN parts[1]
    ELSE parts[1] \o <<",">> \o JoinComma(Tail(parts))

RECURSIVE StringifyText(_)
\* The text JSON.stringify returns for a value it serialises.
StringifyText(val) ==
    CASE val.k = "string" -> QuoteText(val.v)
      [] val.k = "number" -> NatText(val.v)
      [] val.k = "boolean" ->
            IF val.v THEN <<"true">> ELSE <<"false">>
      [] val.k = "null" -> <<"null">>
      [] val.k = "array" ->
            <<"[">>
            \o JoinComma([i \in 1..Len(val.v) |->
                   IF val.v[i].k = "undefined" THEN <<"null">>
                   ELSE StringifyText(val.v[i])])
            \o <<"]">>
      [] val.k = "object" ->
            LET kept == SelectSeq(val.v, LAMBDA m : m[2].k # "undefined")
            IN  <<"{">>
                \o JoinComma([i \in 1..Len(kept) |->
                       QuoteText(kept[i][1]) \o <<":">> \o StringifyText(kept[i][2])])
                \o <<"}">>

\* JSON.stringify(val): [r, s] with r = "text" (s is the JSON text),
\* "undefined" (the call returns undefined) or "throws".
JsonStringify(val) ==
    IF StringifyThrows(val) THEN [r |-> "throws", s |-> <<>>]
    ELSE IF val.k = "undefined" THEN [r |-> "undefined", s |-> <<>>]
    ELSE [r |-> "text", s |-> StringifyText(val)]

\* The text a non-string becomes where the platform expects a string
\* (String(undefined) is "undefined").
UndefinedText == <<"undefined">>

(***************************************************************************)
(* JSON.parse                                                             *)
(* The grammar over the model's alphabet: strings with the one-character  *)
(* escapes, unsigned integers, the words true, false and null, arrays and *)
(* objects.                                                               *)
(***************************************************************************)
ParseFail == [ok |-> FALSE, val |-> JNull, next |-> 0]

RECURSIVE SkipWs(_, _)
\* The first position at or after i that holds no white space.
SkipWs(s, i) ==
    IF i <= Len(s) /\ s[i] \in WhiteSpace THEN SkipWs(s, i + 1) ELSE i

\* The character an escape letter stands for inside a JSON string.
EscapeChar ==
    ("\"" :> "\"") @@ ("\\" :> "\\") @@ ("/" :> "/") @@ ("n" :> "\n")
        @@ ("t" :> "\t") @@ ("r" :> "\r") @@ ("f" :> "\f")

RECURSIVE ParseString(_, _, _)
\* The rest of a JSON string whose opening quote precedes position i.
ParseString(s, i, acc) ==
    IF i > Len(s) THEN ParseFail
    ELSE IF s[i] = "\"" THEN [ok |-> TRUE, val |-> JStr(acc), next |-> i + 1]
    ELSE IF s[i] \in {"\n", "\t", "\r", "\f"} THEN ParseFail
    ELSE IF s[i] = "\\"
    THEN IF i + 1 <= Len(s) /\ s[i + 1] \in DOMAIN EscapeChar
         THEN ParseString(s, i + 2, Append(acc, EscapeChar[s[i + 1]]))
         ELSE ParseFail
    ELSE ParseString(s, i + 1, Append(acc, s[i]))

DigitValue(c) == (CHOOSE i \in 1..10 : Digits[i] = c) - 1

RECURSIVE ParseDigits(_, _, _)
ParseDigits(s, i, acc) ==
    IF i <= Len(s) /\ s[i] \in DigitSet
    THEN ParseDigits(s, i + 1, acc * 10 + DigitValue(s[i]))
    ELSE [ok |-> TRUE, val |-> JNum(acc), next |-> i]

\* A JSON number at i: "0" alone, or a digit 1..9 and more digits.
ParseNumber(s, i) ==
    IF s[i] = "0" THEN [ok |-> TRUE, val |-> JNum(0), next |-> i + 1]
    ELSE ParseDigits(s, i, 0)

\* The literal word w at position i of s.
HasWord(s, i, w) == i + Len(w) - 1 <= Len(s) /\ SubSeq(s, i, i + Len(w) - 1) = w

\* obj[key] = val on a parsed object: a repeated key keeps its place and
\* takes the later value.
PutMember(members, key, val) ==
    IF \E i \in 1..Len(members) : members[i][1] = key
    THEN [i \in 1..Len(members) |->
             IF members[i][1] = key THEN <<key, val>> ELSE members[i]]
    ELSE Append(members, <<key, val>>)

RECURSIVE ParseValue(_, _)
RECURSIVE ParseElems(_, _, _)
RECURSIVE ParseMembers(_, _, _)

\* The JSON value that starts at position i (white space already skipped).
ParseValue(s, i) ==
    IF i > Len(s) THEN ParseFail
    ELSE IF s[i] = "\"" THEN ParseString(s, i + 1, <<>>)
    ELSE IF s[i] \in DigitSet THEN ParseNumber(s, i)
    ELSE IF HasWord(s, i, <<"true">>)
    THEN [ok |-> TRUE, val |-> JBool(TRUE), next |-> i + 1]
    ELSE IF HasWord(s, i, <<"false">>)
    THEN [ok |-> TRUE, val |-> JBool(FALSE), next |-> i + 1]
    ELSE IF HasWord(s, i, <<"null">>)
    THEN [ok |-> TRUE, val |-> JNull, next |-> i + 1]
    ELSE IF s[i] = "["
    THEN LET j == SkipWs(s, i + 1)
         IN  IF j <= Len(s) /\ s[j] = "]"
             THEN [ok |-> TRUE, val |-> JArr(<<>>), next |-> j + 1]
             ELSE ParseElems(s, j, <<>>)
    ELSE IF s[i] = "{"
    THEN LET j == SkipWs(s, i + 1)
         IN  IF j <= Len(s) /\ s[j] = "}"
             THEN [ok |-> TRUE, val |-> JObj(<<>>), next |-> j + 1]
             ELSE ParseMembers(s, j, <<>>)
    ELSE ParseFail

\* The elements of an array from position i, where a value must start.
ParseElems(s, i, acc) ==
    LET r == ParseValue(s, i)
        j == SkipWs(s, r.next)
    IN  IF ~r.ok \/ j > Len(s) THEN ParseFail
        ELSE IF s[j] = ","
        THEN ParseElems(s, SkipWs(s, j + 1), Append(acc, r.val))
        ELSE IF s[j] = "]"
        THEN [ok |-> TRUE, val |-> JArr(Append(acc, r.val)), next |-> j + 1]
        ELSE ParseFail

\* The members of an object from position i, where a key must start.
ParseMembers(s, i, acc) ==
    IF i > Len(s) \/ s[i] # "\"" THEN ParseFail
    ELSE LET key == ParseString(s, i + 1, <<>>)
             c == SkipWs(s, key.next)
         IN  IF ~key.ok \/ c > Len(s) \/ s[c] # ":" THEN ParseFail
             ELSE LET r == ParseValue(s, SkipWs(s, c + 1))
                      j == SkipWs(s, r.next)
                  IN  IF ~r.ok \/ j > Len(s) THEN ParseFail
                      ELSE IF s[j] = ","
                      THEN ParseMembers(s, SkipWs(s, j + 1),
                                        PutMember(acc, key.val.v, r.val))
                      ELSE IF s[j] = "}"
                      THEN [ok |-> TRUE,
                            val |-> JObj(PutMember(acc, key.val.v, r.val)),
                            next |-> j + 1]
                      ELSE ParseFail

\* JSON.parse(s): [ok, val]; ok is FALSE where the platform raises SyntaxError.
JsonParse(s) ==
    LET r == ParseValue(s, SkipWs(s, 1))
    IN  IF r.ok /\ SkipWs(s, r.next) = Len(s) + 1
        THEN [ok |-> TRUE, val |-> r.val]
        ELSE [ok |-> FALSE, val |-> JNull]

(***************************************************************************)
(* The page and its cookie store (the platform behind document.cookie)    *)
(***************************************************************************)
\* Host and path of the page the services run in.
DocHost == <<"a", ".", "ex">>
DocPath == <<"/", "app">>

\* The lower-case form of a lexeme (the words directives use).
LowerChar(c) ==
    IF \E i \in 1..Len(UpperWords) : UpperWords[i] = c
    THEN LowerWords[CHOOSE i \in 1..Len(UpperWords) : UpperWords[i] = c]
    ELSE c

LowerText(s) == [i \in 1..Len(s) |-> LowerChar(s[i])]

\* Date.prototype.toUTCString, abstracted: an instant is a whole number of
\* days since the epoch and its text is a marker and the day count.
DateText(d) == <<"@">> \o NatText(d)

\* The instant a date text names, or -1 when the text is no date.
ParseDate(s) ==
    IF Len(s) >= 2 /\ s[1] = "@" /\ \A i \in 2..Len(s) : s[i] \in DigitSet
    THEN ParseDigits(s, 2, 0).val.v
    ELSE -1

\* An attribute as <<lower-case name, value>>, split at its first "=".
Attr(a) ==
    LET i == IndexOf(a, "=", 1)
    IN  IF i = 0 THEN <<LowerText(Trim(a)), <<>>>>
        ELSE <<LowerText(Trim(SubSeq(a, 1, i - 1))), Trim(SubSeq(a, i + 1, Len(a)))>>

RECURSIVE LastAttr(_, _, _)
\* The value of the last attribute called n among attrs, or dflt.
LastAttr(attrs, n, dflt) ==
    IF attrs = <<>> THEN dflt
    ELSE IF attrs[Len(attrs)][1] = n THEN attrs[Len(attrs)][2]
    ELSE LastAttr(SubSeq(attrs, 1, Len(attrs) - 1), n, dflt)

\* host domain-matches domain: equal, or host ends with "." and domain.
DomainMatch(host, domain) ==
    \/ host = domain
    \/ /\ Len(host) > Len(domain)
       /\ SubSeq(host, Len(host) - Len(domain), Len(host)) = <<".">> \o domain

\* The request path path-matches a cookie's path.
PathMatch(req, cpath) ==
    \/ req = cpath
    \/ /\ StartsWith(req, cpath)
       /\ Len(req) > Len(cpath)
       /\ (cpath[Len(cpath)] = "/" \/ req[Len(cpath) + 1] = "/")

\* The directory of the page's path: what a cookie written without a
\* usable path attribute gets.
DefaultPath == <<"/">>

\* The cookie a string assigned to document.cookie describes.  domain is
\* empty for a host-only cookie; expires is -1 for a session cookie.
ParsedCookie(text) ==
    LET parts == Split(text, ";")
        nv == parts[1]
        eq == IndexOf(nv, "=", 1)
        attrs == [i \in 1..(Len(parts) - 1) |-> Attr(parts[i + 1])]
        pathAttr == LastAttr(attrs, <<"path">>, <<>>)
        domAttr == LowerText(LastAttr(attrs, <<"domain">>, <<>>))
    IN  [name |-> IF eq = 0 THEN <<>> ELSE Trim(SubSeq(nv, 1, eq - 1)),
         value |-> IF eq = 0 THEN Trim(nv) ELSE Trim(SubSeq(nv, eq + 1, Len(nv))),
         path |-> IF pathAttr = <<>> \/ pathAttr[1] # "/" THEN DefaultPath ELSE pathAttr,
         domain |-> IF domAttr # <<>> /\ domAttr[1] = "." THEN Tail(domAttr) ELSE domAttr,
         expires |-> ParseDate(LastAttr(attrs, <<"expires">>, <<>>))]

\* Two cookies are the same cookie when name, domain and path agree.
SameCookie(c, d) == c.name = d.name /\ c.domain = d.domain /\ c.path = d.path

Stored(c) == [name |-> c.name, value |-> c.value, domain |-> c.domain, path |-> c.path]

\* document.cookie = text at instant now, on the store jar (the cookies in
\* creation order).  A cookie for a foreign domain is ignored; one whose
\* expiry has passed evicts the cookie it names; otherwise it replaces that
\* cookie in place or is added last.
AssignDocumentCookie(jar, text, now) ==
    LET c == ParsedCookie(text)
        rest == SelectSeq(jar, LAMBDA d : ~SameCookie(c, d))
    IN  IF c.name = <<>> /\ c.value = <<>> THEN jar
        ELSE IF c.domain # <<>> /\ ~DomainMatch(DocHost, c.domain) THEN jar
        ELSE IF c.expires # -1 /\ c.expires <= now THEN rest
        ELSE IF Len(rest) < Len(jar)
        THEN [i \in 1..Len(jar) |-> IF SameCookie(c, jar[i]) THEN Stored(c) ELSE jar[i]]
        ELSE Append(jar, Stored(c))

RECURSIVE LongestPathFirst(_)
\* Cookies with longer paths first; creation order among equal lengths.
LongestPathFirst(cs) ==
    IF cs = <<>> THEN <<>>
    ELSE LET m == CHOOSE n \in {Len(cs[i].path) : i \in 1..Len(cs)} :
                      \A i \in 1..Len(cs) : Len(cs[i].path) <= n
         IN  SelectSeq(cs, LAMBDA c : Len(c.path) = m)
             \o LongestPathFirst(SelectSeq(cs, LAMBDA c : Len(c.path) < m))

RECURSIVE JoinCookies(_)
JoinCookies(cs) ==
    IF cs = <<>> THEN <<>>
    ELSE cs[1].name \o <<"=">> \o cs[1].value
         \o (IF Len(cs) = 1 THEN <<>> ELSE <<";", " ">> \o JoinCookies(Tail(cs)))

\* The value read from document.cookie: the cookies sent to the page.
DocumentCookie(jar) ==
    JoinCookies(LongestPathFirst(SelectSeq(jar, LAMBDA c :
        /\ (c.domain = <<>> \/ DomainMatch(DocHost, c.domain))
        /\ PathMatch(DocPath, c.path))))

(***************************************************************************)
(* CookieService                                                          *)
(***************************************************************************)
\* CookieOptions.  expires is [k, v]: "none" (absent), "days" (a number v)
\* or "date" (a Date at instant v); an absent string is the empty text.
NoExpires == [k |-> "none", v |-> 0]
Days(n) == [k |-> "days", v |-> n]
DateAt(d) == [k |-> "date", v |-> d]

NoOptions ==
    [expires |-> NoExpires, path |-> <<>>, domain |-> <<>>, secure |-> FALSE,
     sameSite |-> <<>>, httpOnly |-> FALSE]

\* A guard that looks at window alone: what NoContextSafety must tell apart
\* from CookieService.isBrowser.
WindowOnlyIsBrowser(e) == e.window

\* CookieService.isBrowser
CookieIsBrowser(e) == e.window /\ e.document

\* An expiry test that never passes: what PastExpiryRemoves must tell apart
\* from the test of setCookie.
ExpiresNeverGiven(options) == FALSE

\* if (options.expires): a Date is truthy, a number unless it is 0.
ExpiresGiven(options) ==
    options.expires.k = "date" \/ (options.expires.k = "days" /\ options.expires.v # 0)

\* expiresDate: a number counts days from now, a Date is used as given.
ExpiresDate(options, t) ==
    IF options.expires.k = "days" THEN t + options.expires.v ELSE options.expires.v

\* stringValue: a string passes through, anything else is JSON.stringify'd
\* (undefined stays undefined and is spelled out by encodeURIComponent).
StringValue(value) ==
    IF value.k = "string" THEN [ok |-> TRUE, s |-> value.v]
    ELSE LET r == JsonStringify(value)
         IN  [ok |-> r.r # "throws",
              s |-> IF r.r = "undefined" THEN UndefinedText ELSE r.s]

\* The name=value pair both setCookie and createSetCookieHeader start from.
CookiePair(name, s) == EncodeURIComponent(name) \o <<"=">> \o EncodeURIComponent(s)

\* cookieString as setCookie composes it at instant t: [ok, s], ok FALSE
\* when the try block throws.
CookieString(name, value, options, t) ==
    LET sv == StringValue(value)
    IN  [ok |-> sv.ok,
         s |-> CookiePair(name, sv.s)
               \o (IF ExpiresGiven(options)
                   THEN <<";", " ", "expires", "=">>
                        \o DateText(ExpiresDate(options, t))
                   ELSE <<>>)
               \o <<";", " ", "path", "=">>
               \o (IF options.path # <<>> THEN options.path ELSE <<"/">>)
               \o (IF options.domain # <<>>
                   THEN <<";", " ", "domain", "=">> \o options.domain
                   ELSE <<>>)
               \o (IF options.secure THEN <<";", " ", "secure">> ELSE <<>>)
               \o (IF options.sameSite # <<>>
                   THEN <<";", " ", "samesite", "=">>
                        \o options.sameSite
                   ELSE <<>>)]

\* setCookie(name, value, options): the cookie store afterwards.
SetCookieJar(e, jar, name, value, options, t) ==
    IF ~CookieIsBrowser(e) THEN jar
    ELSE LET cs == CookieString(name, value, options, t)
         IN  IF cs.ok THEN AssignDocumentCookie(jar, cs.s, t) ELSE jar

\* The value getCookie returns for a matched cookie text.
CookieValueOf(raw) ==
    LET d == DecodeURIComponent(raw)
        p == JsonParse(d.s)
    IN  IF ~d.ok THEN JNull
        ELSE IF p.ok THEN p.val
        ELSE JStr(d.s)

\* getCookie(name): the value of the first cookie of document.cookie whose
\* text starts with the encoded name and "=", or null.
GetCookieValue(e, jar, name) ==
    IF ~CookieIsBrowser(e) THEN JNull
    ELSE LET nameEQ == EncodeURIComponent(name) \o <<"=">>
             cookies == Split(DocumentCookie(jar), ";")
             hit(i) == StartsWith(Trim(cookies[i]), nameEQ)
         IN  IF \E i \in 1..Len(cookies) : hit(i)
             THEN LET i == CHOOSE n \in 1..Len(cookies) :
                               hit(n) /\ \A m \in 1..(n - 1) : ~hit(m)
                      c == Trim(cookies[i])
                  IN  CookieValueOf(SubSeq(c, Len(nameEQ) + 1, Len(c)))
             ELSE JNull

\* removeCookie's options: the given path and domain, expires new Date(0).
RemoveOptions(options) ==
    [NoOptions EXCEPT !.path = options.path, !.domain = options.domain,
                      !.expires = DateAt(0)]

\* removeCookie(name, options): setCookie(name, "", ...).
RemoveCookieJar(e, jar, name, options, t) ==
    SetCookieJar(e, jar, name, JStr(<<>>), RemoveOptions(options), t)

\* hasCookie(name)
HasCookieValue(e, jar, name) == GetCookieValue(e, jar, name) # JNull

ProtoKey == <<"__proto__">>

\* cookies[key] = value on a plain object: assigning a string to __proto__
\* stores nothing; any other key is set, replacing an earlier value.
AssignProperty(m, key, value) ==
    IF key = ProtoKey THEN m
    ELSE [n \in DOMAIN m \cup {key} |-> IF n = key THEN value ELSE m[n]]

RECURSIVE ParsePairs(_, _)
\* The loop of getAllCookies and parseCookiesFromHeader over the pieces of
\* the text: [ok, m]; ok is FALSE when decodeURIComponent throws.
ParsePairs(pieces, m) ==
    IF pieces = <<>> THEN [ok |-> TRUE, m |-> m]
    ELSE LET parts == Split(Trim(pieces[1]), "=")
             name == parts[1]
             value == IF Len(parts) >= 2 THEN parts[2] ELSE <<>>
             dn == DecodeURIComponent(name)
             dv == DecodeURIComponent(value)
         IN  IF name # <<>> /\ value # <<>>
             THEN IF dn.ok /\ dv.ok
                  THEN ParsePairs(Tail(pieces), AssignProperty(m, dn.s, dv.s))
                  ELSE [ok |-> FALSE, m |-> <<>>]
             ELSE ParsePairs(Tail(pieces), m)

\* The mapping both parsers build from a cookie text ({} on an error).
ParseCookieText(text) ==
    LET r == ParsePairs(Split(text, ";"), <<>>)
    IN  IF r.ok THEN r.m ELSE <<>>

\* getAllCookies()
GetAllCookiesValue(e, jar) ==
    IF ~CookieIsBrowser(e) THEN <<>> ELSE ParseCookieText(DocumentCookie(jar))

RECURSIVE RemoveEach(_, _, _, _)
\* for (const name in cookies) this.removeCookie(name)
RemoveEach(e, jar, names, t) ==
    IF names = {} THEN jar
    ELSE LET n == CHOOSE n \in names : TRUE
         IN  RemoveEach(e, RemoveCookieJar(e, jar, n, NoOptions, t), names \ {n}, t)

\* A clearing that empties the store: what EmptyValueSkipped must tell
\* apart from clearAllCookies.
ClearWholeJar(e, jar, t) == IF ~CookieIsBrowser(e) THEN jar ELSE <<>>

\* clearAllCookies(): the cookie store afterwards.
ClearAllCookiesJar(e, jar, t) ==
    IF ~CookieIsBrowser(e) THEN jar
    ELSE RemoveEach(e, jar, DOMAIN GetAllCookiesValue(e, jar), t)

\* parseCookiesFromHeader(cookieHeader); null and "" are both the empty text.
ParseCookiesFromHeaderValue(cookieHeader) ==
    IF cookieHeader = <<>> THEN <<>> ELSE ParseCookieText(cookieHeader)

\* A mode left as given: what HeaderMirrorsSetCookie must tell apart from
\* the capitalised mode.
KeepCase(s) == s

\* sameSite.charAt(0).toUpperCase() + sameSite.slice(1)
Capitalise(s) ==
    IF s = <<>> THEN s
    ELSE <<IF \E i \in 1..Len(LowerWords) : LowerWords[i] = s[1]
           THEN UpperWords[CHOOSE i \in 1..Len(LowerWords) : LowerWords[i] = s[1]]
           ELSE s[1]>> \o Tail(s)

\* createSetCookieHeader(name, value, options) at instant t: the header
\* text, "" when the try block throws.
CreateSetCookieHeaderValue(name, value, options, t) ==
    LET sv == StringValue(value)
    IN  IF ~sv.ok THEN <<>>
        ELSE CookiePair(name, sv.s)
             \o (IF ExpiresGiven(options)
                 THEN <<";", " ", "Expires", "=">>
                      \o DateText(ExpiresDate(options, t))
                 ELSE <<>>)
             \o <<";", " ", "Path", "=">>
             \o (IF options.path # <<>> THEN options.path ELSE <<"/">>)
             \o (IF options.domain # <<>>
                 THEN <<";", " ", "Domain", "=">> \o options.domain
                 ELSE <<>>)
             \o (IF options.secure THEN <<";", " ", "Secure">> ELSE <<>>)
             \o (IF options.sameSite # <<>>
                 THEN <<";", " ", "SameSite", "=">>
                      \o Capitalise(options.sameSite)
                 ELSE <<>>)
             \o (IF options.httpOnly
                 THEN <<";", " ", "HttpOnly">>
                 ELSE <<>>)

(***************************************************************************)
(* LocalStorageService / SessionStorageService (the same code over        *)
(* window.localStorage and window.sessionStorage)                         *)
(***************************************************************************)
\* isBrowser(): window exists and typeof window.localStorage is not
\* "undefined".
StorageIsBrowser(e) == e.window /\ e.storage # "undefined"

\* Whether the Storage behind the service answers.  A page can hold a
\* storage property that passes the typeof test and still fails on every
\* access (storage switched off): each use of it inside a method throws.
StorageAnswers(e) == e.storage = "ok"

\* A serializer that hands strings through as the cookie service does: what
\* StorageRoundTrip must tell apart from JSON.stringify.
PassThroughSerializedValue(value) == StringValue(value)

\* serializedValue as Storage.setItem stores it: [ok, s], ok FALSE when
\* JSON.stringify throws (undefined is stored spelled out).
SerializedValue(value) ==
    LET r == JsonStringify(value)
    IN  [ok |-> r.r # "throws",
         s |-> IF r.r = "undefined" THEN UndefinedText ELSE r.s]

\* The error the try block of setItem meets, "none" when it completes:
\* quota says whether Storage.setItem raises QuotaExceededError on this call.
SetItemFault(e, value, quota) ==
    IF ~SerializedValue(value).ok THEN "serialize"
    ELSE IF ~StorageAnswers(e) THEN "access"
    ELSE IF quota THEN "quota"
    ELSE "none"

\* setItem(key, value): the store afterwards.
SetItemStore(e, st, key, value, quota) ==
    IF ~StorageIsBrowser(e) THEN st
    ELSE IF SetItemFault(e, value, quota) # "none" THEN st
    ELSE [n \in DOMAIN st \cup {key} |->
             IF n = key THEN SerializedValue(value).s ELSE st[n]]

\* A getItem that hands back the stored text when JSON.parse rejects it, as
\* getCookie does: what DecodeFailureIsAbsence must tell apart from getItem.
RawOnFailureGetItemValue(e, st, key) ==
    IF ~StorageIsBrowser(e) \/ ~StorageAnswers(e) THEN JNull
    ELSE IF key \notin DOMAIN st THEN JNull
    ELSE CookieValueOf(EncodeURIComponent(st[key]))

\* getItem(key): null without a browser, on a caught error, for an absent
\* key and for text JSON.parse rejects.
GetItemValue(e, st, key) ==
    IF ~StorageIsBrowser(e) THEN JNull
    ELSE IF ~StorageAnswers(e) THEN JNull
    ELSE IF key \notin DOMAIN st THEN JNull
    ELSE LET p == JsonParse(st[key])
         IN  IF p.ok THEN p.val ELSE JNull

\* removeItem(key): the store afterwards.
RemoveItemStore(e, st, key) ==
    IF ~StorageIsBrowser(e) \/ ~StorageAnswers(e) THEN st
    ELSE [n \in DOMAIN st \ {key} |-> st[n]]

\* clear(): the store afterwards.
ClearStore(e, st) ==
    IF ~StorageIsBrowser(e) \/ ~StorageAnswers(e) THEN st ELSE <<>>

\* getAllKeys() given the order keys the platform lists the keys in.
GetAllKeysValue(e, keys) ==
    IF ~StorageIsBrowser(e) \/ ~StorageAnswers(e) THEN <<>> ELSE keys

\* hasItem(key): [threw, val].  The method has no try block: an error of
\* the store reaches the caller.
HasItemResult(e, st, key) ==
    IF ~StorageIsBrowser(e) THEN [threw |-> FALSE, val |-> JBool(FALSE)]
    ELSE IF ~StorageAnswers(e) THEN [threw |-> TRUE, val |-> JUndefined]
    ELSE [threw |-> FALSE, val |-> JBool(key \in DOMAIN st)]

\* getLength(): [threw, val].  No try block either.
GetLengthResult(e, st) ==
    IF ~StorageIsBrowser(e) THEN [threw |-> FALSE, val |-> JNum(0)]
    ELSE IF ~StorageAnswers(e) THEN [threw |-> TRUE, val |-> JUndefined]
    ELSE [threw |-> FALSE, val |-> JNum(Cardinality(DOMAIN st))]

\* Object.keys(storage): the keys, in an order the platform chooses.
KeyOrders(st) ==
    {s \in [1..Cardinality(DOMAIN st) -> DOMAIN st] :
        \A i, j \in 1..Cardinality(DOMAIN st) : i # j => s[i] # s[j]}

(***************************************************************************)
(* Bounds and inputs                                                      *)
(***************************************************************************)
\* Longest text drawn as a string value.
MaxStrLen == 1
\* Most cookies the store holds.
MaxCookies == 2
\* Latest instant (in days since the epoch) a run starts at.
MaxNow == 1
\* Most name=value pieces of a header text handed to the parser.
MaxPairs == 2

StrAlphabet == {"a", "1"}

\* Every text over StrAlphabet of at most n characters.
Texts(n) == UNION {[1..m -> StrAlphabet] : m \in 0..n}

\* Cookie names and storage keys: non-empty, one of them needing encoding.
Names == {<<"k">>, <<"k", "=">>}

AppPath == <<"/", "app">>
ParentDomain == <<"ex">>
ForeignDomain == <<"org">>

\* Values handed to setCookie.
CookieValues ==
    {JStr(s) : s \in Texts(MaxStrLen)}
        \cup {JCircular}

\* Values handed to setItem.
StoreValues ==
    {JStr(s) : s \in Texts(MaxStrLen)}
        \cup {JStr(<<"\"", "\\">>), JNum(12), JBool(TRUE), JNull,
              JArr(<<JNum(1), JStr(<<"a">>)>>),
              JObj(<< <<<<"a">>, JArr(<<JNull>>)>> >>),
              JUndefined, JCircular}

\* Options handed to setCookie.
OptionInputs ==
    {NoOptions,
     [NoOptions EXCEPT !.path = AppPath],
     [NoOptions EXCEPT !.domain = ParentDomain],
     [NoOptions EXCEPT !.domain = ForeignDomain],
     [NoOptions EXCEPT !.expires = Days(0)],
     [NoOptions EXCEPT !.expires = Days(-1)],
     [NoOptions EXCEPT !.expires = Days(1), !.secure = TRUE, !.sameSite = <<"lax">>]}

\* Options handed to removeCookie: Pick<CookieOptions, "path" | "domain">.
RemoveOptionInputs ==
    {[NoOptions EXCEPT !.path = p, !.domain = d] :
        p \in {<<>>, AppPath}, d \in {<<>>, ParentDomain}}

\* Cookie values as a server wrote them, not all of them encoded as
\* setCookie encodes: malformed percent-encoding, plain text, JSON texts,
\* an encoded "{", the empty value.
ServerValues ==
    {<<"%">>, <<"a">>, <<"null">>, <<"1">>, <<"%", "7", "B">>, <<>>}

\* The cookie store of a page whose server set one cookie k.
ServerJars ==
    {<<[name |-> <<"k">>, value |-> v, domain |-> <<>>, path |-> <<"/">>]>> :
        v \in ServerValues}

\* Names handed to createSetCookieHeader.
HeaderNames == Names \cup {<<"Path">>, ProtoKey}

\* Values handed to createSetCookieHeader.
HeaderValues ==
    {JStr(s) : s \in Texts(MaxStrLen)}
        \cup {JStr(<<"a", ";", " ", "=", "%">>), JStr(<<"{", "}">>),
              JNum(12), JBool(TRUE), JObj(<< <<<<"a">>, JNull>> >>),
              JUndefined, JCircular}

\* Options handed to createSetCookieHeader.
HeaderOptionInputs ==
    {NoOptions,
     [NoOptions EXCEPT !.path = AppPath],
     [NoOptions EXCEPT !.domain = ParentDomain],
     [NoOptions EXCEPT !.expires = Days(0)],
     [NoOptions EXCEPT !.expires = Days(-1)],
     [NoOptions EXCEPT !.expires = Days(1), !.httpOnly = TRUE],
     [NoOptions EXCEPT !.expires = DateAt(0), !.secure = TRUE,
                       !.sameSite = <<"strict">>]}

\* The name=value pieces header texts are built from.
PieceInputs ==
    {<<"a", "=", "1">>, <<"a", "=", "2">>, <<"b", "=", "1">>, <<"a", "=">>,
     <<"a">>, <<"a", "=", "%">>, <<"a", "=", "1", "=", "2">>,
     <<"__proto__", "=", "1">>, <<"a", "%", "3", "D", "=", "%", "3", "B">>}

RECURSIVE JoinPieces(_)
JoinPieces(ps) ==
    IF ps = <<>> THEN <<>>
    ELSE IF Len(ps) = 1 THEN ps[1]
    ELSE ps[1] \o <<";", " ">> \o JoinPieces(Tail(ps))

\* Header texts handed to parseCookiesFromHeader: up to MaxPairs pieces
\* joined by "; " (none: the header is absent).
HeaderInputs ==
    {JoinPieces(ps) : ps \in UNION {[1..n -> PieceInputs] : n \in 0..MaxPairs}}

(***************************************************************************)
(* Login form                                                             *)
(***************************************************************************)
\* The cookie name the Login page writes its token under.
TOKEN == <<"token">>

\* The delay, in milliseconds, of the timer that stands for the API call.
LoginDelay == 1500

\* What the user can have typed in the two fields.
EmailInputs ==
    {<<>>, <<"a">>, <<"a", "@", "ex">>,
     <<"a", "@", "ex", ".", "org">>, <<"b", "@", "ex", ".", "org">>}
PasswordInputs ==
    {<<>>, <<"p", "w", "1", "2", "3">>, <<"p", "w", "1", "2", "3", "4">>}

\* z.string().min(n): at least n characters.  The texts it is asked about
\* here are empty or made of single characters up to the length asked for.
MinLength(s, n) == Len(s) >= n

\* What a label of a domain name is made of.
DomainLabels == (Words \ {"__proto__"}) \cup LowerLetters \cup DigitSet

\* z.string().email(): one "@" after a non-empty local part, then a domain
\* of labels separated by dots that ends in a top-level label of letters.
IsEmail(s) ==
    \E i \in 2..Len(s) :
        /\ s[i] = "@"
        /\ \A j \in 1..Len(s) : s[j] = "@" => j = i
        /\ \A j \in 1..(i - 1) : s[j] \in LowerLetters \cup DigitSet \cup {".", "_", "-"}
        /\ s[1] # "." /\ s[i - 1] # "."
        /\ Len(s) >= i + 3
        /\ s[Len(s)] \in Words \ {"__proto__"}
        /\ s[Len(s) - 1] = "."
        /\ \A j \in (i + 1)..Len(s) :
               IF (j - i) % 2 = 1 THEN s[j] \in DomainLabels
               ELSE s[j] = "."

\* loginSchema: the form data the resolver lets through.
LoginSchemaAccepts(data) ==
    /\ MinLength(data.email, 1)
    /\ IsEmail(data.email)
    /\ MinLength(data.password, 1)
    /\ MinLength(data.password, 6)

\* defaultValues of useForm.
DefaultValues == [email |-> <<>>, password |-> <<>>]

\* The token of the timer callback: `Bearer ${email}`.
BareToken(email) == email
Token(email) == <<"Bearer", " ">> \o email

\* The page as mounted: default values in the fields, no submit under way,
\* no navigation requested, no timer pending, nothing done.
LoginMounted ==
    [pc |-> "idle", values |-> DefaultValues, data |-> DefaultValues,
     isSubmitting |-> FALSE, errors |-> FALSE, timer |-> 0,
     navigated |-> <<>>, resolved |-> FALSE, done |-> <<>>]

(***************************************************************************)
(* State                                                                  *)
(***************************************************************************)
VARIABLES
    svc,      \* the service this page exercises; the services share no state
    env,      \* what the runtime provides: window, document, the Storage
    now,      \* the instant of the run, in days since the epoch
    jar,      \* the browser's cookies, in creation order
    store,    \* the Storage object behind the service: key text -> text
    last,     \* the last call: method, arguments, return value, fault
    login     \* the Login form: fields, submit state, location, steps taken

vars == <<svc, env, now, jar, store, last, login>>

\* "cookie" is CookieService on a page whose cookie store starts empty,
\* "cookiePage" its reading methods on a page whose cookies were set by the
\* server, "cookieHeader" its two methods that work on header text (for the
\* server).
Services ==
    {"cookie", "cookiePage", "cookieHeader", "localStorage", "sessionStorage"}

\* The services that read document.cookie.
ReadsCookies(s) == s \in {"cookie", "cookiePage"}

IsStorage(s) == s \in {"localStorage", "sessionStorage"}

\* The runtimes a service can find itself in.  The cookie service does not
\* look at the Storage, nor the storage services at document or the clock;
\* the header methods look at nothing but the clock.
Envs(s) ==
    CASE s = "cookie" ->
            {[window |-> w, document |-> d, storage |-> "ok"] : w, d \in BOOLEAN}
      [] s = "cookiePage" ->
            {[window |-> TRUE, document |-> TRUE, storage |-> "ok"]}
      [] s = "cookieHeader" ->
            {[window |-> FALSE, document |-> FALSE, storage |-> "undefined"]}
      [] OTHER ->
            {[window |-> TRUE, document |-> TRUE, storage |-> g] :
                 g \in {"ok", "undefined", "broken"}}
            \cup {[window |-> FALSE, document |-> FALSE, storage |-> "undefined"]}

\* A call as recorded in last.  fault names the error the underlying store
\* raised during the call; threw says an exception reached the caller.
Call(op, key, val, opts, ret, threw, fault) ==
    [op |-> op, key |-> key, val |-> val, opts |-> opts, ret |-> ret,
     threw |-> threw, fault |-> fault]

Init ==
    /\ svc \in Services
    /\ env \in Envs(svc)
    /\ now \in (IF IsStorage(svc) THEN {1} ELSE 1..MaxNow)
    /\ jar \in (IF svc = "cookiePage" THEN ServerJars ELSE {<<>>})
    /\ store = <<>>
    /\ last = Call("none", <<>>, JUndefined, NoOptions, JUndefined, FALSE, "none")
    /\ login = LoginMounted

(***************************************************************************)
(* CookieService calls                                                    *)
(***************************************************************************)
SetCookie ==
    \E name \in Names, value \in CookieValues, options \in OptionInputs :
        /\ svc = "cookie"
        /\ jar' = SetCookieJar(env, jar, name, value, options, now)
        /\ Len(jar') <= MaxCookies
        /\ last' = Call("setCookie", name, value, options, JUndefined, FALSE, "none")
        /\ UNCHANGED <<login, svc, env, now, store>>

GetCookie ==
    \E name \in Names :
        /\ ReadsCookies(svc)
        /\ last' = Call("getCookie", name, JUndefined, NoOptions,
                        GetCookieValue(env, jar, name), FALSE, "none")
        /\ UNCHANGED <<login, svc, env, now, jar, store>>

RemoveCookie ==
    \E name \in Names, options \in RemoveOptionInputs :
        /\ svc = "cookie"
        /\ jar' = RemoveCookieJar(env, jar, name, options, now)
        /\ last' = Call("removeCookie", name, JUndefined, options, JUndefined, FALSE, "none")
        /\ UNCHANGED <<login, svc, env, now, store>>

HasCookie ==
    \E name \in Names :
        /\ ReadsCookies(svc)
        /\ last' = Call("hasCookie", name, JUndefined, NoOptions,
                        JBool(HasCookieValue(env, jar, name)), FALSE, "none")
        /\ UNCHANGED <<login, svc, env, now, jar, store>>

GetAllCookies ==
    /\ ReadsCookies(svc)
    /\ last' = Call("getAllCookies", <<>>, JUndefined, NoOptions,
                    JMap(GetAllCookiesValue(env, jar)), FALSE, "none")
    /\ UNCHANGED <<login, svc, env, now, jar, store>>

ClearAllCookies ==
    /\ svc = "cookie"
    /\ jar' = ClearAllCookiesJar(env, jar, now)
    /\ last' = Call("clearAllCookies", <<>>, JUndefined, NoOptions, JUndefined, FALSE, "none")
    /\ UNCHANGED <<login, svc, env, now, store>>

\* The server's calls: header text in, header text out.
ParseCookiesFromHeader ==
    \E cookieHeader \in HeaderInputs :
        /\ svc = "cookieHeader"
        /\ last' = Call("parseCookiesFromHeader", cookieHeader, JUndefined, NoOptions,
                        JMap(ParseCookiesFromHeaderValue(cookieHeader)), FALSE, "none")
        /\ UNCHANGED <<login, svc, env, now, jar, store>>

CreateSetCookieHeader ==
    \E name \in HeaderNames, value \in HeaderValues, options \in HeaderOptionInputs :
        /\ svc = "cookieHeader"
        /\ last' = Call("createSetCookieHeader", name, value, options,
                        JStr(CreateSetCookieHeaderValue(name, value, options, now)),
                        FALSE, "none")
        /\ UNCHANGED <<login, svc, env, now, jar, store>>

(***************************************************************************)
(* Storage service calls                                                  *)
(***************************************************************************)
SetItem ==
    \E key \in Names, value \in StoreValues, quota \in BOOLEAN :
        /\ IsStorage(svc)
        /\ quota => StorageIsBrowser(env) /\ SetItemFault(env, value, quota) = "quota"
        /\ store' = SetItemStore(env, store, key, value, quota)
        /\ last' = Call("setItem", key, value, NoOptions, JUndefined, FALSE,
                        IF StorageIsBrowser(env)
                        THEN SetItemFault(env, value, quota) ELSE "none")
        /\ UNCHANGED <<login, svc, env, now, jar>>

GetItem ==
    \E key \in Names :
        /\ IsStorage(svc)
        /\ last' = Call("getItem", key, JUndefined, NoOptions,
                        GetItemValue(env, store, key), FALSE, "none")
        /\ UNCHANGED <<login, svc, env, now, jar, store>>

RemoveItem ==
    \E key \in Names :
        /\ IsStorage(svc)
        /\ store' = RemoveItemStore(env, store, key)
        /\ last' = Call("removeItem", key, JUndefined, NoOptions, JUndefined, FALSE, "none")
        /\ UNCHANGED <<login, svc, env, now, jar>>

Clear ==
    /\ IsStorage(svc)
    /\ store' = ClearStore(env, store)
    /\ last' = Call("clear", <<>>, JUndefined, NoOptions, JUndefined, FALSE, "none")
    /\ UNCHANGED <<login, svc, env, now, jar>>

GetAllKeys ==
    \E keys \in KeyOrders(store) :
        /\ IsStorage(svc)
        /\ last' = Call("getAllKeys", <<>>, JUndefined, NoOptions,
                        JArr(GetAllKeysValue(env, keys)), FALSE, "none")
        /\ UNCHANGED <<login, svc, env, now, jar, store>>

HasItem ==
    \E key \in Names :
        /\ IsStorage(svc)
        /\ last' = Call("hasItem", key, JUndefined, NoOptions,
                        HasItemResult(env, store, key).val,
                        HasItemResult(env, store, key).threw, "none")
        /\ UNCHANGED <<login, svc, env, now, jar, store>>

GetLength ==
    /\ IsStorage(svc)
    /\ last' = Call("getLength", <<>>, JUndefined, NoOptions,
                    GetLengthResult(env, store).val,
                    GetLengthResult(env, store).threw, "none")
    /\ UNCHANGED <<login, svc, env, now, jar, store>>

(***************************************************************************)
(* Login page                                                             *)
(***************************************************************************)
\* The user types in the fields.  The page takes input events between
\* tasks only, so never in the middle of the timer callback, and the form
\* is on screen until the navigation away from it is requested.
Fill ==
    \E e \in EmailInputs, p \in PasswordInputs :
        /\ svc = "login"
        /\ login.pc \in {"idle", "waiting"}
        /\ login.navigated = <<>>
        /\ login' = [login EXCEPT !.values = [email |-> e, password |-> p]]
        /\ UNCHANGED <<svc, env, now, jar, store, last>>

\* The form is submitted: handleSubmit validates the field values and, when
\* the schema accepts them, calls onSubmit, which starts the timer and
\* awaits it; otherwise it reports the errors and the submit is over.  The
\* submit button is disabled while a submit is under way.
Submit ==
    /\ svc = "login"
    /\ login.pc = "idle"
    /\ ~login.isSubmitting
    /\ login.navigated = <<>>
    /\ login' = IF LoginSchemaAccepts(login.values)
                THEN [login EXCEPT !.pc = "waiting", !.isSubmitting = TRUE,
                                   !.errors = FALSE, !.data = login.values,
                                   !.timer = LoginDelay, !.resolved = FALSE,
                                   !.done = <<>>]
                ELSE [login EXCEPT !.errors = TRUE]
    /\ UNCHANGED <<svc, env, now, jar, store, last>>

\* The timer fires: the callback composes the token and sets the cookie.
TimerFires ==
    /\ svc = "login"
    /\ login.pc = "waiting"
    /\ jar' = SetCookieJar(env, jar, TOKEN, JStr(Token(login.data.email)),
                           NoOptions, now)
    /\ last' = Call("setCookie", TOKEN, JStr(Token(login.data.email)),
                    NoOptions, JUndefined, FALSE, "none")
    /\ login' = [login EXCEPT !.pc = "navigate", !.timer = 0,
                              !.done = Append(login.done, "setCookie")]
    /\ UNCHANGED <<svc, env, now, store>>

\* The callback goes on: navigate("/").
Navigate ==
    /\ svc = "login"
    /\ login.pc = "navigate"
    /\ login' = [login EXCEPT !.pc = "resolve", !.navigated = <<"/">>,
                              !.done = Append(login.done, "navigate")]
    /\ UNCHANGED <<svc, env, now, jar, store, last>>

\* resolve(true): the promise onSubmit awaits is resolved.
Resolve ==
    /\ svc = "login"
    /\ login.pc = "resolve"
    /\ login' = [login EXCEPT !.pc = "reset", !.resolved = TRUE,
                              !.done = Append(login.done, "resolve")]
    /\ UNCHANGED <<svc, env, now, jar, store, last>>

\* reset(): the fields go back to the default values and the errors go.
\* Whether reset also ends isSubmitting is the form library's affair, and
\* its versions differ: either outcome.
Reset ==
    \E submitting \in {FALSE, login.isSubmitting} :
        /\ svc = "login"
        /\ login.pc = "reset"
        /\ login' = [login EXCEPT !.pc = "settle", !.values = DefaultValues,
                                  !.errors = FALSE, !.isSubmitting = submitting,
                                  !.done = Append(login.done, "reset")]
        /\ UNCHANGED <<svc, env, now, jar, store, last>>

\* The callback is over; the await of onSubmit goes on, onSubmit returns
\* and handleSubmit ends the submit.
Complete ==
    /\ svc = "login"
    /\ login.pc = "settle"
    /\ login' = [login EXCEPT !.pc = "idle", !.isSubmitting = FALSE,
                              !.done = Append(login.done, "complete")]
    /\ UNCHANGED <<svc, env, now, jar, store, last>>

Next ==
    \/ SetCookie \/ GetCookie \/ RemoveCookie \/ HasCookie
    \/ GetAllCookies \/ ClearAllCookies
    \/ ParseCookiesFromHeader \/ CreateSetCookieHeader
    \/ SetItem \/ GetItem \/ RemoveItem \/ Clear
    \/ GetAllKeys \/ HasItem \/ GetLength

Spec == Init /\ [][Next]_vars

\* The Login page in a browser, its cookie store empty.
LoginInit ==
    /\ svc = "login"
    /\ env = [window |-> TRUE, document |-> TRUE, storage |-> "ok"]
    /\ now \in 1..MaxNow
    /\ jar = <<>>
    /\ store = <<>>
    /\ last = Call("none", <<>>, JUndefined, NoOptions, JUndefined, FALSE, "none")
    /\ login = LoginMounted

LoginNext ==
    \/ Fill \/ Submit
    \/ TimerFires \/ Navigate \/ Resolve \/ Reset \/ Complete

\* A timer is pending.  This is when TimerFires can be taken, and taking it
\* changes login.pc: it is ENABLED <<TimerFires>>_vars, evaluated.
TimerPending == svc = "login" /\ login.pc = "waiting"

\* The browser fires a pending timer, runs a callback it has started to its
\* end, and runs the continuation of a settled await.  The first condition
\* is weak fairness of TimerFires, written with TimerPending for its
\* enabling condition.
LoginSpec ==
    /\ LoginInit
    /\ [][LoginNext]_vars
    /\ ([]<>~TimerPending \/ []<><<TimerFires>>_vars)
    /\ WF_vars(Navigate \/ Resolve \/ Reset)
    /\ WF_vars(Complete)

(***************************************************************************)
(* Properties                                                             *)
(***************************************************************************)
\* A value JSON.stringify turns into text.
Serializable(value) == JsonStringify(value).r = "text"

\* No browser context for the service under way: window or document
\* missing for the cookie service, window or the Storage missing for a
\* storage service, the server for the header methods.
NoContext ==
    CASE svc = "cookie" -> ~env.window \/ ~env.document
      [] IsStorage(svc) -> ~env.window \/ env.storage = "undefined"
      [] OTHER -> ~env.window

\* The methods with a neutral default, and the default of each.
DefaultOps ==
    {"setCookie", "getCookie", "removeCookie", "hasCookie", "getAllCookies",
     "clearAllCookies", "setItem", "getItem", "removeItem", "clear",
     "getAllKeys", "hasItem", "getLength"}

NeutralDefault(op) ==
    CASE op \in {"getCookie", "getItem"} -> JNull
      [] op \in {"hasCookie", "hasItem"} -> JBool(FALSE)
      [] op = "getAllCookies" -> JMap(<<>>)
      [] op = "getAllKeys" -> JArr(<<>>)
      [] op = "getLength" -> JNum(0)
      [] OTHER -> JUndefined

\* C1: in a browser context, setCookie(k, v) with default options followed
\* by getCookie(k) returns v, of the same type, for every serializable v,
\* strings that are JSON text included.
CookieRoundTrip ==
    (/\ svc = "cookie"
     /\ env.window /\ env.document
     /\ last.op = "setCookie"
     /\ last.opts = NoOptions
     /\ Serializable(last.val))
        => GetCookieValue(env, jar, last.key) = last.val

\* C2, as stated: in a browser context, setItem(k, v) followed by
\* getItem(k) returns v for every serializable v.
StorageRoundTripAlways ==
    (/\ IsStorage(svc)
     /\ env.window /\ env.storage # "undefined"
     /\ last.op = "setItem"
     /\ Serializable(last.val))
        => GetItemValue(env, store, last.key) = last.val

\* C2, amended: in a browser context, setItem(k, v) that the underlying
\* store accepted (no error raised during the call) followed by getItem(k)
\* returns v for every serializable v.
StorageRoundTrip ==
    (/\ IsStorage(svc)
     /\ env.window /\ env.storage # "undefined"
     /\ last.op = "setItem"
     /\ last.fault = "none"
     /\ Serializable(last.val))
        => GetItemValue(env, store, last.key) = last.val

\* An object with a nested array was written and reads back as itself.
StorageRoundTripWitness ==
    /\ IsStorage(svc)
    /\ env.window /\ env.storage = "ok"
    /\ last.op = "setItem"
    /\ last.fault = "none"
    /\ last.val = JObj(<< <<<<"a">>, JArr(<<JNull>>)>> >>)
    /\ GetItemValue(env, store, last.key) = last.val

\* C3: set(key, v) followed by remove(key) (cookies: with the path and
\* domain of the set) makes get(key) return null and has(key) return false,
\* and both stay so until key is written again.
RemovalHolds ==
    [][/\ (/\ svc = "cookie"
           /\ last.op = "setCookie"
           /\ last'.op = "removeCookie"
           /\ last'.key = last.key
           /\ last'.opts.path = last.opts.path
           /\ last'.opts.domain = last.opts.domain)
              => /\ GetCookieValue(env, jar', last.key) = JNull
                 /\ ~HasCookieValue(env, jar', last.key)
       /\ (/\ IsStorage(svc)
           /\ last.op = "setItem"
           /\ last'.op = "removeItem"
           /\ last'.key = last.key)
              => /\ GetItemValue(env, store', last.key) = JNull
                 /\ HasItemResult(env, store', last.key)
                        = [threw |-> FALSE, val |-> JBool(FALSE)]
       /\ \A k \in Names :
              (/\ GetCookieValue(env, jar, k) = JNull
               /\ GetItemValue(env, store, k) = JNull
               /\ ~(last'.op \in {"setCookie", "setItem"} /\ last'.key = k))
                  => /\ GetCookieValue(env, jar', k) = JNull
                     /\ GetItemValue(env, store', k) = JNull]_vars

\* C4: set(key, v1) followed by set(key, v2) with the same options makes
\* get(key) return v2.
LastWriteWins ==
    [][/\ (/\ svc = "cookie"
           /\ env.window /\ env.document
           /\ last.op = "setCookie"
           /\ last'.op = "setCookie"
           /\ last'.key = last.key
           /\ last'.opts = last.opts
           /\ Serializable(last'.val))
              => GetCookieValue(env, jar', last.key) = last'.val
       /\ (/\ IsStorage(svc)
           /\ env.window /\ env.storage # "undefined"
           /\ last.op = "setItem"
           /\ last'.op = "setItem"
           /\ last'.key = last.key
           /\ Serializable(last'.val))
              => GetItemValue(env, store', last.key) = last'.val]_vars

\* C5: without a browser context every method raises no fault, leaves the
\* cookie store and the key/value store as they were (empty) and returns
\* its neutral default: get null, has false, getAll the empty mapping,
\* the key list empty, the count 0, the writing methods nothing.
NoContextSafety ==
    NoContext =>
        /\ last.threw = FALSE
        /\ jar = <<>>
        /\ store = <<>>
        /\ last.op \in DefaultOps => last.ret = NeutralDefault(last.op)

\* setCookie was called on a page with a window and no document.
NoContextSafetyWitness ==
    /\ svc = "cookie"
    /\ env.window /\ ~env.document
    /\ last.op = "setCookie"
    /\ last.val = JStr(<<"a">>)
    /\ jar = <<>>

\* C6: no method ever lets a fault reach its caller, whichever of the four
\* error kinds it meets; where the context is missing or the store fails,
\* the reading methods return their benign default.
ErrorContainment ==
    /\ last.threw = FALSE
    /\ (IsStorage(svc) /\ env.storage # "ok" /\ last.op \in DefaultOps)
           => last.ret = NeutralDefault(last.op)

\* The pairs of a header text as the parser takes them.
HeaderPieces(cookieHeader) == Split(cookieHeader, ";")
PieceParts(piece) == Split(Trim(piece), "=")

\* Whether piece i of the header is a pair for key.
IsOccurrence(cookieHeader, key, i) ==
    LET parts == PieceParts(HeaderPieces(cookieHeader)[i])
    IN  /\ Len(parts) >= 2
        /\ parts[1] # <<>>
        /\ parts[2] # <<>>
        /\ DecodeURIComponent(parts[1]) = [ok |-> TRUE, s |-> key]

\* The value of the first occurrence of key in the header.
FirstOccurrenceValue(cookieHeader, key) ==
    LET i == CHOOSE n \in 1..Len(HeaderPieces(cookieHeader)) :
                 /\ IsOccurrence(cookieHeader, key, n)
                 /\ \A m \in 1..(n - 1) : ~IsOccurrence(cookieHeader, key, m)
    IN  DecodeURIComponent(PieceParts(HeaderPieces(cookieHeader)[i])[2]).s

\* C7: parseCookiesFromHeader maps every key it returns to the value of
\* the key's first occurrence in the header.
FirstMatchWins ==
    last.op = "parseCookiesFromHeader" =>
        \A key \in DOMAIN last.ret.v :
            last.ret.v[key] = FirstOccurrenceValue(last.key, key)

\* C8: for every non-empty key k and string v,
\* parseCookiesFromHeader(createSetCookieHeader(k, v, {})) maps k to v.
HeaderRoundTrip ==
    (/\ last.op = "createSetCookieHeader"
     /\ last.opts = NoOptions
     /\ last.key # <<>>
     /\ last.val.k = "string")
        => LET m == ParseCookiesFromHeaderValue(last.ret.v)
           IN  /\ last.key \in DOMAIN m
               /\ m[last.key] = last.val.v

\* C9: in a browser context, getAllCookies() right after clearAllCookies()
\* returns the empty mapping, whatever path and domain the cookies were
\* written with.
ClearAllEmpties ==
    (/\ svc = "cookie"
     /\ env.window /\ env.document
     /\ last.op = "clearAllCookies")
        => GetAllCookiesValue(env, jar) = <<>>

\* C10: every value the key/value store holds is JSON text.
StoredValuesAreJson ==
    IsStorage(svc) => \A key \in DOMAIN store : JsonParse(store[key]).ok

\* The directives of a composed cookie string, each <<lower-case name, value>>.
Directives(cookieString) ==
    LET parts == Split(cookieString, ";")
    IN  [i \in 1..(Len(parts) - 1) |-> Attr(parts[i + 1])]

\* The string the last setCookie composed.
LastCookieString == CookieString(last.key, last.val, last.opts, now).s

\* C11: the string setCookie composes carries expires = now + n days for
\* every numeric expiry n (positive, negative or zero), a Date expiry as
\* given, and path=/ when options.path is absent.
ExpiryIsDaysFromNow ==
    (/\ svc = "cookie"
     /\ env.window /\ env.document
     /\ last.op = "setCookie"
     /\ Serializable(last.val))
        => LET ds == Directives(LastCookieString)
           IN  /\ last.opts.expires.k = "days"
                      => LastAttr(ds, <<"expires">>, <<>>)
                             = DateText(now + last.opts.expires.v)
               /\ last.opts.expires.k = "date"
                      => LastAttr(ds, <<"expires">>, <<>>)
                             = DateText(last.opts.expires.v)
               /\ last.opts.path = <<>>
                      => LastAttr(ds, <<"path">>, <<>>) = <<"/">>

\* The cookies of the store that carry the encoded name of key.
CookiesNamed(key) ==
    {i \in 1..Len(jar) : jar[i].name = EncodeURIComponent(key)}

\* The last call was setCookie with a serializable value and a numeric
\* expiry below zero, in a browser context.
PastExpirySet ==
    /\ svc = "cookie"
    /\ env.window /\ env.document
    /\ last.op = "setCookie"
    /\ Serializable(last.val)
    /\ last.opts.expires.k = "days"
    /\ last.opts.expires.v < 0

DirectivePieces(text) ==
    LET parts == Split(text, ";") IN SubSeq(parts, 2, Len(parts))

\* The name of a directive piece as written, and its value.
RawName(piece) ==
    LET i == IndexOf(piece, "=", 1)
    IN  IF i = 0 THEN Trim(piece) ELSE Trim(SubSeq(piece, 1, i - 1))
RawValue(piece) ==
    LET i == IndexOf(piece, "=", 1)
    IN  IF i = 0 THEN <<>> ELSE SubSeq(piece, i + 1, Len(piece))

\* The capitalised spelling of a lower-case directive name or mode.
UpperOf(w) ==
    IF \E i \in 1..Len(LowerWords) : LowerWords[i] = w
    THEN UpperWords[CHOOSE i \in 1..Len(LowerWords) : LowerWords[i] = w]
    ELSE w

\* Header piece h says what cookie piece c says, with the name capitalised
\* and, for samesite, the mode capitalised.
MirrorsPiece(h, c) ==
    /\ RawName(h) = <<UpperOf(RawName(c)[1])>>
    /\ Len(RawName(c)) = 1
    /\ RawValue(h) = (IF RawName(c) = <<"samesite">>
                      THEN <<UpperOf(RawValue(c)[1])>> \o Tail(RawValue(c))
                      ELSE RawValue(c))

\* C13: the string createSetCookieHeader returns has the name=value pair
\* of the string setCookie composes for the same arguments and the same
\* directives in the same order, with capitalised names (and mode), plus a
\* last HttpOnly exactly when options.httpOnly is true; setCookie composes
\* no HttpOnly; where setCookie throws before composing, the header is "".
HeaderMirrorsSetCookie ==
    last.op = "createSetCookieHeader" =>
        LET cs == CookieString(last.key, last.val, last.opts, now)
            h == DirectivePieces(last.ret.v)
            c == DirectivePieces(cs.s)
            n == Len(c)
        IN  IF ~cs.ok THEN last.ret.v = <<>>
            ELSE /\ Split(last.ret.v, ";")[1] = Split(cs.s, ";")[1]
                 /\ Len(h) = n + (IF last.opts.httpOnly THEN 1 ELSE 0)
                 /\ \A i \in 1..n : MirrorsPiece(h[i], c[i])
                 /\ last.opts.httpOnly => h[n + 1] = <<" ", "HttpOnly">>
                 /\ \A i \in 1..n : RawName(c[i]) # <<"httponly">>

\* A header was built with an expiry in days and httpOnly set.
HeaderMirrorsSetCookieWitness ==
    /\ last.op = "createSetCookieHeader"
    /\ last.opts.httpOnly
    /\ last.opts.expires = Days(1)
    /\ last.val = JStr(<<"a", ";", " ", "=", "%">>)
    /\ last.ret.v # <<>>

\* C14: getItem(key) on a key whose stored text is not JSON returns null
\* (never the raw string), raises no fault and leaves the stored text as
\* it was.
DecodeFailureIsAbsence ==
    [][(/\ IsStorage(svc)
        /\ env.window /\ env.storage = "ok"
        /\ last'.op = "getItem"
        /\ last'.key \in DOMAIN store
        /\ ~JsonParse(store[last'.key]).ok)
           => /\ last'.ret = JNull
              /\ last'.ret # JStr(store[last'.key])
              /\ ~last'.threw
              /\ store' = store]_vars

\* getItem was called on a key holding text that is not JSON.
DecodeFailureIsAbsenceWitness ==
    /\ IsStorage(svc)
    /\ env.window /\ env.storage = "ok"
    /\ last.op = "getItem"
    /\ last.key \in DOMAIN store
    /\ ~JsonParse(store[last.key]).ok
    /\ last.ret = JNull

\* The texts of the cookies document.cookie lists under key, in order: what
\* follows the encoded key and "=" in each.
ListedValues(key) ==
    LET pieces == Split(DocumentCookie(jar), ";")
        named == SelectSeq(pieces,
                     LAMBDA c : StartsWith(Trim(c), EncodeURIComponent(key) \o <<"=">>))
    IN  [i \in 1..Len(named) |->
            SubSeq(Trim(named[i]), Len(EncodeURIComponent(key)) + 2,
                   Len(Trim(named[i])))]

\* The last call was getCookie in a browser context.
GetCookieCalled ==
    /\ ReadsCookies(svc)
    /\ env.window /\ env.document
    /\ last.op = "getCookie"

\* C15: getCookie(key) returns the decoded string of a cookie key whose
\* decoded value is not JSON, raises no fault, and returns null only when
\* no cookie key is listed or its decoded value is the JSON text null.
RawStringFallbackOnly ==
    GetCookieCalled =>
        LET vs == ListedValues(last.key)
            d == DecodeURIComponent(vs[1])
            p == JsonParse(d.s)
        IN  /\ ~last.threw
            /\ (vs # <<>> /\ d.ok /\ ~p.ok) => last.ret = JStr(d.s)
            /\ last.ret = JNull
                   => \/ vs = <<>>
                      \/ d.ok /\ p.ok /\ p.val = JNull


\* Neither store holds an entry under key.
NoEntry(j, st, key) ==
    /\ \A i \in 1..Len(j) : j[i].name # EncodeURIComponent(key)
    /\ key \notin DOMAIN st

\* Every reading method finds key absent: get returns null, has false.
ReadsAbsent(j, st, key) ==
    /\ GetCookieValue(env, j, key) = JNull
    /\ ~HasCookieValue(env, j, key)
    /\ GetItemValue(env, st, key) = JNull
    /\ HasItemResult(env, st, key) = [threw |-> FALSE, val |-> JBool(FALSE)]

\* C16: starting from an empty store, a key stays absent (get null, has
\* false) through every operation that is not a set on that key: an
\* operation on one key never makes another key readable.
KeyIsolation ==
    [][\A k \in Names :
           (/\ svc # "cookiePage"
            /\ NoEntry(jar, store, k)
            /\ ~(last'.op \in {"setCookie", "setItem"} /\ last'.key = k))
               => /\ NoEntry(jar', store', k)
                  /\ ReadsAbsent(jar', store', k)]_vars


\* The keys with a cookie of non-empty value among those document.cookie
\* lists.
KeysWithValue ==
    {k \in Names : \E i \in 1..Len(ListedValues(k)) : ListedValues(k)[i] # <<>>}

\* Cookie c is the one removeCookie(key) with no options expires.
RootCookieOf(c, key) ==
    /\ c.name = EncodeURIComponent(key)
    /\ c.path = <<"/">>
    /\ c.domain = <<>>

SubmitSteps == <<"setCookie", "navigate", "resolve", "reset", "complete">>

\* The steps taken so far are the first n of SubmitSteps.
StepsTaken(n) == login.done = SubSeq(SubmitSteps, 1, n)

\* The token cookie reads back as "Bearer " followed by the submitted email.
TokenWritten ==
    GetCookieValue(env, jar, TOKEN) = JStr(<<"Bearer", " ">> \o login.data.email)

\* C18: after a submit with a valid email and password nothing is written
\* and no navigation is requested until the timer fires; when it fires the
\* token cookie is set to "Bearer " followed by the submitted email, then
\* navigation to "/" is requested, then the submit promise resolves, then
\* the form is reset; isSubmitting never goes back to false before the
\* cookie is written; and every started submit eventually completes.
LoginSubmitOrdering ==
    /\ [](svc = "login" =>
            /\ login.pc = "waiting" =>
                   /\ login.isSubmitting /\ login.timer = LoginDelay
                   /\ jar = <<>> /\ store = <<>>
                   /\ login.navigated = <<>> /\ ~login.resolved
                   /\ StepsTaken(0)
            /\ login.pc = "navigate" =>
                   /\ StepsTaken(1) /\ TokenWritten /\ login.isSubmitting
                   /\ login.navigated = <<>> /\ ~login.resolved
            /\ login.pc = "resolve" =>
                   /\ StepsTaken(2) /\ TokenWritten /\ login.isSubmitting
                   /\ login.navigated = <<"/">> /\ ~login.resolved
            /\ login.pc = "reset" =>
                   /\ StepsTaken(3) /\ TokenWritten /\ login.isSubmitting
                   /\ login.navigated = <<"/">> /\ login.resolved
            /\ login.pc = "settle" =>
                   /\ StepsTaken(4) /\ TokenWritten
                   /\ login.navigated = <<"/">> /\ login.resolved
                   /\ login.values = DefaultValues
            /\ (login.data # DefaultValues /\ ~login.isSubmitting) => TokenWritten
            /\ (login.pc = "idle" /\ login.data # DefaultValues) =>
                   /\ StepsTaken(5) /\ ~login.isSubmitting /\ TokenWritten
                   /\ login.navigated = <<"/">> /\ login.resolved)
    /\ [][(svc = "login" /\ login.pc \in {"idle", "waiting"}
               /\ login'.pc \in {"idle", "waiting"})
              => /\ jar' = jar /\ store' = store
                 /\ login'.navigated = login.navigated]_vars
    /\ [][(svc = "login" /\ login.pc = "idle" /\ login'.pc = "waiting")
              => /\ LoginSchemaAccepts(login.values)
                 /\ login'.data = login.values]_vars
    /\ ((svc = "login" /\ login.pc = "waiting")
            ~> (login.pc = "idle" /\ ~login.isSubmitting /\ StepsTaken(5)))

\* A submit of b@ex.org has completed: the token cookie holds
\* "Bearer b@ex.org", "/" was requested, the form is back to its defaults.
LoginSubmitOrderingWitness ==
    /\ svc = "login"
    /\ login.pc = "idle" /\ ~login.isSubmitting
    /\ login.done = SubmitSteps
    /\ login.data.email = <<"b", "@", "ex", ".", "org">>
    /\ GetCookieValue(env, jar, TOKEN)
           = JStr(<<"Bearer", " ", "b", "@", "ex", ".", "org">>)
    /\ login.navigated = <<"/">>
    /\ login.values = DefaultValues
====
